---------------------------- MODULE Spec2Model ----------------------------
(***************************************************************************)
(* A model of frozen.c, the zero-allocation JSON tokenizer: parse_json and *)
(* the recursive-descent rules it drives, as a state machine over the      *)
(* struct frozen (cursor, token array, token count) and the C call stack.  *)
(* Offsets are 0-based as in C; a byte is its unsigned char code.          *)
(***************************************************************************)
EXTENDS Integers, Sequences, FiniteSets, TLC

\* ------------------------------------------------------------------ bounds

\* Token budget of the generated documents: the number of tokens recorded
\* between the root object's token and the END_OF_INPUT marker.
MaxToks == 4

\* The capacities (arr_len) the second call of a run is made with: 0..MaxCap.
MaxCap == 5

\* --------------------------------------------------------------- characters

\* The printable ASCII characters in code order, from code 32 (space) on
\* (code 96 is spelled out: the backquote cannot be written in a string).
Printable ==
  << " ", "!", "\"", "#", "$", "%", "&", "'", "(", ")", "*", "+", ",", "-",
     ".", "/", "0", "1", "2", "3", "4", "5", "6", "7", "8", "9", ":", ";",
     "<", "=", ">", "?", "@", "A", "B", "C", "D", "E", "F", "G", "H", "I",
     "J", "K", "L", "M", "N", "O", "P", "Q", "R", "S", "T", "U", "V", "W",
     "X", "Y", "Z", "[", "\\", "]", "^", "_", "(backquote)", "a", "b", "c", "d", "e",
     "f", "g", "h", "i", "j", "k", "l", "m", "n", "o", "p", "q", "r", "s",
     "t", "u", "v", "w", "x", "y", "z", "{", "|", "}", "~" >>

OrdTable ==
  [c \in {Printable[i] : i \in 1..Len(Printable)} |->
      31 + (CHOOSE i \in 1..Len(Printable) : Printable[i] = c)]

\* The code of a character constant of the C source ('{', '\t', ...).
Ord(c) ==
  CASE c = "\t" -> 9
    [] c = "\n" -> 10
    [] c = "\r" -> 13
    [] OTHER -> OrdTable[c]

\* A C string literal as its bytes.
Bytes(t) == [i \in 1..Len(t) |-> Ord(t[i])]

END_OF_STRING == -1

JSON_STRING_INVALID == -1

JSON_STRING_INCOMPLETE == -2

JSON_TOKEN_ARRAY_TOO_SMALL == -3

is_space(ch) ==
  ch = Ord(" ") \/ ch = Ord("\t") \/ ch = Ord("\r") \/ ch = Ord("\n")

is_alpha(ch) ==
  (ch >= Ord("a") /\ ch <= Ord("z")) \/ (ch >= Ord("A") /\ ch <= Ord("Z"))

is_digit(ch) == ch >= Ord("0") /\ ch <= Ord("9")

is_hex_digit(ch) ==
  is_digit(ch) \/ (ch >= Ord("a") /\ ch <= Ord("f"))
               \/ (ch >= Ord("A") /\ ch <= Ord("F"))


\* ------------------------------------------------------------------ inputs

\* The documents of the grammar in the comments of frozen.c
\*   json = object, object = '{' pair { ',' pair } '}', pair = key ':' value,
\*   array = '[' [ value { ',' value } ] ']', key = identifier | string,
\*   value = 'null' | 'true' | 'false' | number | string | array | object
\* by the number of tokens they hold.
Leaves == { Bytes(<<"1">>), Bytes(<<"\"", "a", "\"">>) }

RECURSIVE ValuesOf(_), ListsOf(_), PairsOf(_)
\* The values that are recorded as exactly n tokens.
ValuesOf(n) ==
  IF n = 1
  THEN Leaves \cup { Bytes(<<"[", "]">>), Bytes(<<"{", "}">>) }
  ELSE { Bytes(<<"[">>) \o l \o Bytes(<<"]">>) : l \in ListsOf(n - 1) }
       \cup { Bytes(<<"{">>) \o p \o Bytes(<<"}">>) : p \in PairsOf(n - 1) }

\* value { ',' value }, recorded as exactly n tokens.
ListsOf(n) ==
  ValuesOf(n) \cup
  UNION { { v \o Bytes(<<",">>) \o l : v \in ValuesOf(k), l \in ListsOf(n - k) }
          : k \in 1..(n - 1) }

\* pair { ',' pair }, recorded as exactly n tokens (a key is one token).
PairsOf(n) ==
  IF n < 2 THEN {}
  ELSE { Bytes(<<"a", ":">>) \o v : v \in ValuesOf(n - 1) } \cup
       UNION { { Bytes(<<"b", ":">>) \o v \o Bytes(<<",">>) \o p
                 : v \in ValuesOf(k - 1), p \in PairsOf(n - k) }
               : k \in 2..(n - 2) }

GrammarDocs ==
  { Bytes(<<"{", "}">>) } \cup
  UNION { { Bytes(<<"{">>) \o p \o Bytes(<<"}">>) : p \in PairsOf(n) }
          : n \in 2..MaxToks }

\* One-pair documents around every kind of scalar, key and white space,
\* documents without commas, and containers followed by a sibling.
Doc(v) == Bytes(<<"{", "a", ":">>) \o v \o Bytes(<<"}">>)

ScalarDocs ==
  { Doc(Bytes(v)) : v \in
      { <<"-", "1">>, <<"1", "0">>, <<"n", "u", "l", "l">>,
        <<"t", "r", "u", "e">>, <<"f", "a", "l", "s", "e">>,
        <<"\"", "\"">>, <<"\"", "\\", "n", "\"">>, <<"\"", "\\", "\"", "\"">>,
        <<"\"", "\\", "\\", "\"">>, <<"\"", "a", "~", "\"">> } }
  \cup { Bytes(d) : d \in
      { <<"{", "\"", "a", "\"", ":", "1", "}">>,
        <<"{", "A", "_", "1", ":", "1", "}">>,
        <<" ", "{", "\t", "a", " ", ":", "\n", "1", "\r", "}">>,
        <<"{", "a", ":", "[", "1", " ", "1", "]", "}">>,
        <<"{", "a", ":", "1", " ", "b", ":", "1", "}">>,
        <<"{", "b", ":", "[", "1", "]", ",", "a", ":", "1", "}">>,
        <<"{", "a", ":", "[", "[", "1", "]", ",", "1", "]", "}">>,
        <<"{", "a", ":", "{", "b", ":", "[", "1", "]", "}", ",",
          "c", ":", "1", "}">> } }

\* Strings with a \u escape: valid by the grammar of strings, 4 hex digits.
UnicodeDocs ==
  { Doc(Bytes(v)) : v \in
      { <<"\"", "\\", "u", "0", "0", "a", "F", "\"">>,
        <<"\"", "a", "\\", "u", "1", "9", "b", "C", "a", "\"">> } }

\* The valid documents: objects of the grammar, nothing after the closing '}'.
ValidDocs == GrammarDocs \cup ScalarDocs \cup UnicodeDocs

\* Documents outside the grammar: fractions and exponents, bad escapes and
\* bytes, stray separators, a root that is no object, trailing bytes.
OtherDocs ==
  { Doc(Bytes(v)) : v \in
      { <<"1", ".", "5">>, <<"1", "e", "5">>, <<"1", "E", "5">>,
        <<"-", "1", ".", "5">>, <<"1", ".">>,
        <<"1", "e", ":", "1">>, <<"1", "E", ":", "1">>,
        <<"[", "1", "e", "5", "]">>, <<"[", "1", ".", "5", "]">>,
        <<"[", "1", "e", ":", "1", "]">>,
        <<"{", "a", ":", "1", "e", ":", "1", "}">>,
        <<"1", ",">>, <<"[", "1", ",", "]">>, <<"-">>, <<"-", "a">>,
        <<"x">>, <<"n", "u", "l", "L">>, <<"t", "r", "u">>, <<".", "5">>,
        <<"\"", "\\", "x", "\"">>, <<"\"", "\\", "u", "0", "0", "g", "0", "\"">>,
        <<"\"", "\\", "u", "0", "\"">>, <<"\"", "\\", "U", "0", "0", "0", "0", "\"">> } }
  \cup { Doc(<<Ord("\""), b, Ord("\"")>>) : b \in {1, 31, 127, 128, 200} }
  \cup { Bytes(d) : d \in
      { <<"{", "}", " ">>, <<"{", "}", "x">>, <<"[", "1", "]">>, <<"1">>,
        <<"{", "1", ":", "1", "}">>, <<"{", "a", " ", "1", "}">>,
        <<"{", "a", ":", "1", "]">>, <<"{", "a", ":", "[", "1", "}">>,
        <<"{", ",", "}">>, <<"{", "\"", "\\">>, <<" ", " ">> } }

Docs == ValidDocs \cup OtherDocs

\* Every input is a document or a prefix of one (the empty prefix included).
Inputs == UNION { { SubSeq(d, 1, n) : n \in 0..Len(d) } : d \in Docs }


\* ------------------------------------------------------------------- state

VARIABLES
  s,        \* the input bytes of parse_json (s_len is Len(s))
  stale,    \* what the caller's token array holds before a call
  calls,    \* the calls of parse_json made on s so far
  f,        \* struct frozen of the call in progress (or of the last call)
  stack,    \* the C call stack, innermost frame last
  ret,      \* <<n>> once the call has returned n, NoValue while it runs
  ref,      \* the outcome of the first call, kept while the second runs
  hi        \* the highest offset of s the call has read, -1 before any read

vars == <<s, stale, calls, f, stack, ret, ref, hi>>

NoValue == <<>>

s_len == Len(s)

\* The capacity of the first call: no input holds more tokens than bytes.
Big == s_len + 1

\* What arr and arr_len are in a call: a null array or one of len slots.
Buffers ==
  [null : {FALSE}, len : 0..MaxCap] \cup [null : {TRUE}, len : {0, MaxCap}]

\* A slot of the caller's array that no call has written yet.
StaleToken ==
  [ptr |-> stale, len |-> stale, type |-> "stale", num_children |-> stale]

Frame(fn) == [fn |-> fn, pc |-> "entry", ind |-> -1, ch |-> 0]

top == stack[Len(stack)]

Running == stack # <<>> /\ ret = NoValue

At(fn, pc) == Running /\ top.fn = fn /\ top.pc = pc

Max(a, b) == IF a >= b THEN a ELSE b

\* *(s + i): a byte of the input.
Byte(i) == s[i + 1]

\* ------------------------------------------------------------ scanner

left(g) == g.end - g.cur

RECURSIVE skip_whitespaces(_)
\* f with the cursor after the white space it stood on.
skip_whitespaces(g) ==
  IF g.cur < g.end /\ is_space(Byte(g.cur))
  THEN skip_whitespaces([g EXCEPT !.cur = @ + 1])
  ELSE g

\* cur(f): the character under the cursor once white space is skipped (the
\* cursor of the caller's f is moved to skip_whitespaces(f).cur).
cur(g) ==
  LET h == skip_whitespaces(g)
  IN  IF h.cur >= h.end THEN END_OF_STRING ELSE Byte(h.cur)

\* The highest offset cur(f) reads: it reads while f->cur < f->end.
CurRead(g) ==
  IF g.cur < g.end
  THEN (IF skip_whitespaces(g).cur < g.end THEN skip_whitespaces(g).cur
        ELSE g.end - 1)
  ELSE -1

\* test_and_skip: [rc, f].
test_and_skip(g, expected) ==
  LET h  == skip_whitespaces(g)
      ch == cur(g)
  IN  IF ch = expected
      THEN [rc |-> 0, f |-> [h EXCEPT !.cur = @ + 1]]
      ELSE [rc |-> IF ch = END_OF_STRING THEN JSON_STRING_INCOMPLETE
                   ELSE JSON_STRING_INVALID,
            f |-> h]

\* What the byte beyond the input may hold when the code reads it.
BeyondBytes == { 0, Ord("u"), Ord("n"), Ord("x") }

\* *(s + i) for any offset the code computes: inside the input the byte, at
\* s_len or beyond whatever lies there (oob).
Mem(i, oob) == IF i < s_len THEN Byte(i) ELSE oob

\* get_escape_len without its check of the bytes left for a one-byte escape.
get_escape_len_unchecked(p, len, oob) ==
  IF Mem(p, oob) = Ord("u")
  THEN (IF len < 4 THEN JSON_STRING_INCOMPLETE
        ELSE IF is_hex_digit(Mem(p, oob)) /\ is_hex_digit(Mem(p + 1, oob))
                /\ is_hex_digit(Mem(p + 2, oob)) /\ is_hex_digit(Mem(p + 3, oob))
        THEN 4
        ELSE JSON_STRING_INVALID)
  ELSE IF Mem(p, oob) \in { Ord("\""), Ord("\\"), Ord("/"), Ord("b"),
                            Ord("f"), Ord("n"), Ord("r"), Ord("t") }
  THEN 1
  ELSE JSON_STRING_INVALID

\* get_escape_len(s, len): p is the offset s points to (after the backslash).
get_escape_len(p, len, oob) ==
  IF Mem(p, oob) = Ord("u")
  THEN (IF len < 4 THEN JSON_STRING_INCOMPLETE
        ELSE IF is_hex_digit(Mem(p, oob)) /\ is_hex_digit(Mem(p + 1, oob))
                /\ is_hex_digit(Mem(p + 2, oob)) /\ is_hex_digit(Mem(p + 3, oob))
        THEN 4
        ELSE JSON_STRING_INVALID)
  ELSE IF Mem(p, oob) \in { Ord("\""), Ord("\\"), Ord("/"), Ord("b"),
                            Ord("f"), Ord("n"), Ord("r"), Ord("t") }
  THEN (IF len < 2 THEN JSON_STRING_INCOMPLETE ELSE 1)
  ELSE JSON_STRING_INVALID

\* The highest offset get_escape_len reads: *s, then s[0..3] left to right
\* while they are hex digits.
EscapeRead(p, len, oob) ==
  IF Mem(p, oob) = Ord("u") /\ len >= 4
  THEN (IF ~is_hex_digit(Mem(p, oob)) THEN p
        ELSE IF ~is_hex_digit(Mem(p + 1, oob)) THEN p + 1
        ELSE IF ~is_hex_digit(Mem(p + 2, oob)) THEN p + 2
        ELSE p + 3)
  ELSE p

RECURSIVE MatchLen(_, _, _, _)
\* The i compare's loop ends with, started at i.
MatchLen(g, str, len, i) ==
  IF i < len /\ Byte(g.cur + i) = str[i + 1]
  THEN MatchLen(g, str, len, i + 1)
  ELSE i

compare(g, str, len) ==
  IF left(g) < len THEN 0
  ELSE IF MatchLen(g, str, len, 0) = len THEN 1 ELSE 0

\* The highest offset compare reads.
CompareRead(g, str, len) ==
  IF left(g) < len THEN -1
  ELSE IF MatchLen(g, str, len, 0) = len THEN g.cur + len - 1
  ELSE g.cur + MatchLen(g, str, len, 0)

\* ------------------------------------------------------ token recorder

\* capture_ptr with the array taken as full one token late.
capture_ptr_late(g, ptr, type) ==
  IF g.tokens.null \/ g.max_tokens = 0 THEN [rc |-> 0, f |-> g]
  ELSE IF g.num_tokens > g.max_tokens
  THEN [rc |-> JSON_TOKEN_ARRAY_TOO_SMALL, f |-> g]
  ELSE [rc |-> 0,
        f |-> [g EXCEPT !.tokens.at =
                          IF g.num_tokens < g.max_tokens
                          THEN [@ EXCEPT ![g.num_tokens + 1].ptr = ptr,
                                         ![g.num_tokens + 1].type = type]
                          ELSE @,
                        !.num_tokens = @ + 1]]

\* capture_ptr: [rc, f].
capture_ptr(g, ptr, type) ==
  IF g.tokens.null \/ g.max_tokens = 0 THEN [rc |-> 0, f |-> g]
  ELSE IF g.num_tokens >= g.max_tokens
  THEN [rc |-> JSON_TOKEN_ARRAY_TOO_SMALL, f |-> g]
  ELSE [rc |-> 0,
        f |-> [g EXCEPT !.tokens.at[g.num_tokens + 1].ptr = ptr,
                        !.tokens.at[g.num_tokens + 1].type = type,
                        !.num_tokens = @ + 1]]

\* capture_len counting the token itself among its children.
capture_len_plus_one(g, token_index, ptr) ==
  IF g.tokens.null \/ g.max_tokens = 0 THEN [rc |-> 0, f |-> g]
  ELSE IF ~(token_index >= 0 /\ token_index < g.max_tokens)
  THEN [rc |-> JSON_STRING_INVALID, f |-> g]
  ELSE [rc |-> 0,
        f |-> [g EXCEPT
                 !.tokens.at[token_index + 1].num_children =
                     g.num_tokens - token_index,
                 !.tokens.at[token_index + 1].len =
                     ptr - g.tokens.at[token_index + 1].ptr]]

\* capture_len: [rc, f].
capture_len(g, token_index, ptr) ==
  IF g.tokens.null \/ g.max_tokens = 0 THEN [rc |-> 0, f |-> g]
  ELSE IF ~(token_index >= 0 /\ token_index < g.max_tokens)
  THEN [rc |-> JSON_STRING_INVALID, f |-> g]
  ELSE [rc |-> 0,
        f |-> [g EXCEPT
                 !.tokens.at[token_index + 1].num_children =
                     (g.num_tokens - 1) - token_index,
                 !.tokens.at[token_index + 1].len =
                     ptr - g.tokens.at[token_index + 1].ptr]]

\* ------------------------------------------------- calls and returns

\* return err (and TRY in every caller, which returns it unchanged): the
\* call ends with err; the stack is left as the failing rule saw it.
Fail(err, g, r) ==
  /\ ret' = <<err>>
  /\ f' = g
  /\ hi' = Max(hi, r)
  /\ UNCHANGED <<s, stale, calls, stack, ref>>

\* The rule goes on at pc.
Goto(pc, g, r) ==
  /\ stack' = [stack EXCEPT ![Len(stack)].pc = pc]
  /\ f' = g
  /\ hi' = Max(hi, r)
  /\ UNCHANGED <<s, stale, calls, ret, ref>>

\* TRY(fn(f)): the rule calls fn and goes on at pc when it returns 0.
CallRule(fn, pc, g, r) ==
  /\ stack' = Append([stack EXCEPT ![Len(stack)].pc = pc], Frame(fn))
  /\ f' = g
  /\ hi' = Max(hi, r)
  /\ UNCHANGED <<s, stale, calls, ret, ref>>

\* return 0 from a rule.
Return(g, r) ==
  /\ stack' = SubSeq(stack, 1, Len(stack) - 1)
  /\ f' = g
  /\ hi' = Max(hi, r)
  /\ UNCHANGED <<s, stale, calls, ret, ref>>

\* ---------------------------------------------------------- parse_json

\* struct frozen frozen = { s + s_len, s, arr, arr_len, 0 }
NewFrozen(arr) ==
  [end |-> s_len, cur |-> 0,
   tokens |-> [null |-> arr.null,
               at |-> IF arr.null THEN <<>>
                      ELSE [i \in 1..arr.len |-> StaleToken]],
   max_tokens |-> arr.len, num_tokens |-> 0]

\* parse_json up to TRY(parse_object(&frozen)). s is never a null pointer
\* and s_len never negative here.
parse_json(arr) ==
  /\ calls = 0 \/ ret # NoValue
  /\ calls' = calls + 1
  /\ ref' = IF calls = 0 THEN ref ELSE [ret |-> ret, f |-> f]
  /\ f' = NewFrozen(arr)
  /\ hi' = -1
  /\ IF s_len = 0
     THEN /\ ret' = <<JSON_STRING_INCOMPLETE>>
          /\ stack' = <<Frame("parse_json")>>
     ELSE /\ ret' = NoValue
          /\ stack' = <<[Frame("parse_json") EXCEPT !.pc = "eof"],
                        Frame("parse_object")>>
  /\ UNCHANGED <<s, stale>>

FirstCall == calls = 0 /\ parse_json([null |-> FALSE, len |-> Big])

SecondCall == calls = 1 /\ \E arr \in Buffers : parse_json(arr)

\* parse_json once the root object is parsed: the END_OF_INPUT token, and
\* the bytes consumed.
ParseJsonEof ==
  /\ At("parse_json", "eof")
  /\ LET c == capture_ptr(f, f.cur, "JSON_TYPE_EOF")
         g == capture_len(c.f, c.f.num_tokens, c.f.cur).f
     IN  IF c.rc < 0 THEN Fail(c.rc, c.f, -1)
         ELSE /\ ret' = <<g.cur - 0>>
              /\ f' = g
              /\ stack' = <<>>
              /\ UNCHANGED <<s, stale, calls, ref, hi>>

\* ------------------------------------------------- object, pair and key

\* parse_object (and parse_array, with '[' and JSON_TYPE_ARRAY) up to its
\* loop: the opening delimiter and the container's token.
Open(fn, delim, type) ==
  /\ At(fn, "entry")
  /\ LET t == test_and_skip(f, delim)
         c == capture_ptr(t.f, t.f.cur - 1, type)
         r == CurRead(f)
     IN  IF t.rc < 0 THEN Fail(t.rc, t.f, r)
         ELSE IF c.rc < 0 THEN Fail(c.rc, c.f, r)
         ELSE /\ stack' = [stack EXCEPT
                             ![Len(stack)].pc = "loop",
                             ![Len(stack)].ind = c.f.num_tokens - 1]
              /\ f' = c.f
              /\ hi' = Max(hi, r)
              /\ UNCHANGED <<s, stale, calls, ret, ref>>

\* while (cur(f) != close) { TRY(child(f)); ... } TRY(test_and_skip(f, close));
\* capture_len(f, ind, f->cur); return 0;
Loop(fn, close, child) ==
  /\ At(fn, "loop")
  /\ LET h == skip_whitespaces(f)
         t == test_and_skip(h, close)
         r == CurRead(f)
     IN  IF cur(f) # close THEN CallRule(child, "sep", h, r)
         ELSE IF t.rc < 0 THEN Fail(t.rc, t.f, r)
         ELSE Return(capture_len(t.f, top.ind, t.f.cur).f, r)

\* if (cur(f) == ',') f->cur++;
Sep(fn) ==
  /\ At(fn, "sep")
  /\ LET h == skip_whitespaces(f)
     IN  Goto("loop",
              IF cur(f) = Ord(",") THEN [h EXCEPT !.cur = @ + 1] ELSE h,
              CurRead(f))

ObjectOpen == Open("parse_object", Ord("{"), "JSON_TYPE_OBJECT")

ObjectLoop == Loop("parse_object", Ord("}"), "parse_pair")

ObjectSep == Sep("parse_object")

ArrayOpen == Open("parse_array", Ord("["), "JSON_TYPE_ARRAY")

ArrayLoop == Loop("parse_array", Ord("]"), "parse_value")

ArraySep == Sep("parse_array")

\* parse_pair: TRY(parse_key(f));
PairKey == At("parse_pair", "entry") /\ CallRule("parse_key", "colon", f, -1)

\* parse_pair: TRY(test_and_skip(f, ':')); TRY(parse_value(f));
PairColon ==
  /\ At("parse_pair", "colon")
  /\ LET t == test_and_skip(f, Ord(":"))
     IN  IF t.rc < 0 THEN Fail(t.rc, t.f, CurRead(f))
         ELSE CallRule("parse_value", "done", t.f, CurRead(f))

\* The return 0 that ends parse_pair, parse_key and parse_value once the
\* rule they called has returned.
Done(fn) == At(fn, "done") /\ Return(f, -1)

PairDone == Done("parse_pair")

KeyDone == Done("parse_key")

ValueDone == Done("parse_value")

\* parse_key up to the rule it calls.
KeyDispatch ==
  /\ At("parse_key", "entry")
  /\ LET h  == skip_whitespaces(f)
         ch == cur(f)
     IN  IF is_alpha(ch) THEN CallRule("parse_identifier", "done", h, CurRead(f))
         ELSE IF ch = Ord("\"") THEN CallRule("parse_string", "done", h, CurRead(f))
         ELSE Fail(IF ch = END_OF_STRING THEN JSON_STRING_INCOMPLETE
                   ELSE JSON_STRING_INVALID, h, CurRead(f))

\* ------------------------------------------------------------ leaf rules

\* The highest offset a scanning loop (while (f->cur < f->end && ...)) that
\* stops with f = g has read.
ScanRead(g) == IF g.cur < g.end THEN g.cur ELSE g.end - 1

RECURSIVE SkipIdentifier(_)
\* while (f->cur < f->end && (*f->cur == '_' || is_alpha || is_digit)) f->cur++;
SkipIdentifier(g) ==
  IF g.cur < g.end /\ (Byte(g.cur) = Ord("_") \/ is_alpha(Byte(g.cur))
                       \/ is_digit(Byte(g.cur)))
  THEN SkipIdentifier([g EXCEPT !.cur = @ + 1])
  ELSE g

RECURSIVE SkipDigitsAndFraction(_)
\* The digit loop of parse_number taking a '.' for a digit.
SkipDigitsAndFraction(g) ==
  IF g.cur < g.end /\ (is_digit(Byte(g.cur)) \/ Byte(g.cur) = Ord("."))
  THEN SkipDigitsAndFraction([g EXCEPT !.cur = @ + 1])
  ELSE g

RECURSIVE SkipDigits(_)
\* while (f->cur < f->end && is_digit(f->cur[0])) f->cur++;
SkipDigits(g) ==
  IF g.cur < g.end /\ is_digit(Byte(g.cur))
  THEN SkipDigits([g EXCEPT !.cur = @ + 1])
  ELSE g

\* parse_identifier.
Identifier ==
  /\ At("parse_identifier", "entry")
  /\ LET h == skip_whitespaces(f)
         c == capture_ptr(h, h.cur, "JSON_TYPE_STRING")
         g == SkipIdentifier(c.f)
     IN  IF ~is_alpha(cur(f)) THEN Fail(JSON_STRING_INVALID, h, CurRead(f))
         ELSE IF c.rc < 0 THEN Fail(c.rc, c.f, CurRead(f))
         ELSE Return(capture_len(g, g.num_tokens - 1, g.cur).f, ScanRead(g))

\* parse_number.
Number ==
  /\ At("parse_number", "entry")
  /\ LET h == skip_whitespaces(f)
         c == capture_ptr(h, h.cur, "JSON_TYPE_NUMBER")
         g == SkipDigits(IF cur(f) = Ord("-") THEN [c.f EXCEPT !.cur = @ + 1]
                         ELSE c.f)
     IN  IF c.rc < 0 THEN Fail(c.rc, c.f, CurRead(f))
         ELSE Return(capture_len(g, g.num_tokens - 1, g.cur).f,
                     Max(CurRead(f), ScanRead(g)))

\* parse_string up to its loop: the opening quote and the token.
StringOpen ==
  /\ At("parse_string", "entry")
  /\ LET t == test_and_skip(f, Ord("\""))
         c == capture_ptr(t.f, t.f.cur, "JSON_TYPE_STRING")
     IN  IF t.rc < 0 THEN Fail(t.rc, t.f, CurRead(f))
         ELSE IF c.rc < 0 THEN Fail(c.rc, c.f, CurRead(f))
         ELSE Goto("loop", c.f, CurRead(f))

\* One test of the for loop of parse_string and, while f->cur < f->end, its
\* body; after the loop, return ch == '"' ? 0 : JSON_STRING_INCOMPLETE.
\* The byte the escape check reads beyond the input is any byte.
StringLoop ==
  /\ At("parse_string", "loop")
  /\ IF f.cur < f.end
     THEN LET ch == Byte(f.cur)
              at == [stack EXCEPT ![Len(stack)].ch = ch]
          IN  IF ~(ch >= 32 /\ ch <= 127)
              THEN Fail(JSON_STRING_INVALID, f, f.cur)
              ELSE IF ch = Ord("\\")
              THEN \E oob \in BeyondBytes :
                     LET n == get_escape_len(f.cur + 1, left(f), oob)
                         r == EscapeRead(f.cur + 1, left(f), oob)
                     IN  IF ~(n > 0) THEN Fail(n, f, r)
                         ELSE /\ stack' = [at EXCEPT ![Len(stack)].pc = "inc"]
                              /\ f' = [f EXCEPT !.cur = @ + n]
                              /\ hi' = Max(hi, r)
                              /\ UNCHANGED <<s, stale, calls, ret, ref>>
              ELSE IF ch = Ord("\"")
              THEN Return([capture_len(f, f.num_tokens - 1, f.cur).f
                             EXCEPT !.cur = @ + 1], f.cur)
              ELSE /\ stack' = [at EXCEPT ![Len(stack)].pc = "inc"]
                   /\ f' = f
                   /\ hi' = Max(hi, f.cur)
                   /\ UNCHANGED <<s, stale, calls, ret, ref>>
     ELSE IF top.ch = Ord("\"") THEN Return(f, -1)
          ELSE Fail(JSON_STRING_INCOMPLETE, f, -1)

\* f->cur++ of the for loop of parse_string.
StringInc ==
  /\ At("parse_string", "inc")
  /\ Goto("loop", [f EXCEPT !.cur = @ + 1], -1)

\* A literal of parse_value: capture_ptr, f->cur += len, capture_len.
Literal(h, type, len, r) ==
  LET c == capture_ptr(h, h.cur, type)
      g == [c.f EXCEPT !.cur = @ + len]
  IN  IF c.rc < 0 THEN Fail(c.rc, c.f, r)
      ELSE Return(capture_len(g, g.num_tokens - 1, g.cur).f, r)

\* The highest offset the conditions of parse_value read, in their order.
ValueRead(h) ==
  LET ch == cur(h)
      n  == IF ch = Ord("n") THEN CompareRead(h, Bytes(<<"n", "u", "l", "l">>), 4)
            ELSE -1
      tr == IF ch = Ord("t") THEN CompareRead(h, Bytes(<<"t", "r", "u", "e">>), 4)
            ELSE -1
      fa == IF ch = Ord("f")
            THEN CompareRead(h, Bytes(<<"f", "a", "l", "s", "e">>), 5)
            ELSE -1
      mi == IF ch = Ord("-") /\ h.cur + 1 < h.end THEN h.cur + 1 ELSE -1
  IN  Max(CurRead(h), Max(Max(n, tr), Max(fa, mi)))

\* parse_value up to the rule it calls; a literal is recorded here.
ValueDispatch ==
  /\ At("parse_value", "entry")
  /\ LET h  == skip_whitespaces(f)
         ch == cur(f)
         r  == Max(CurRead(f), ValueRead(h))
     IN  IF ch = Ord("\"") THEN CallRule("parse_string", "done", h, r)
         ELSE IF ch = Ord("{") THEN CallRule("parse_object", "done", h, r)
         ELSE IF ch = Ord("[") THEN CallRule("parse_array", "done", h, r)
         ELSE IF ch = Ord("n") /\ compare(h, Bytes(<<"n", "u", "l", "l">>), 4) = 1
         THEN Literal(h, "JSON_TYPE_NULL", 4, r)
         ELSE IF ch = Ord("t") /\ compare(h, Bytes(<<"t", "r", "u", "e">>), 4) = 1
         THEN Literal(h, "JSON_TYPE_TRUE", 4, r)
         ELSE IF ch = Ord("f")
                 /\ compare(h, Bytes(<<"f", "a", "l", "s", "e">>), 5) = 1
         THEN Literal(h, "JSON_TYPE_FALSE", 5, r)
         ELSE IF is_digit(ch)
                 \/ (ch = Ord("-") /\ h.cur + 1 < h.end
                     /\ is_digit(Byte(h.cur + 1)))
         THEN CallRule("parse_number", "done", h, r)
         ELSE Fail(IF ch = END_OF_STRING THEN JSON_STRING_INCOMPLETE
                   ELSE JSON_STRING_INVALID, h, r)

\* ------------------------------------------------------------ the system

\* A run: one input, parsed first into an array that holds every token and
\* then once more with any array.
Init ==
  /\ s \in Inputs
  /\ stale \in {0, 85}
  /\ calls = 0
  /\ f = [end |-> 0, cur |-> 0, tokens |-> [null |-> TRUE, at |-> <<>>],
          max_tokens |-> 0, num_tokens |-> 0]
  /\ stack = <<>>
  /\ ret = NoValue
  /\ ref = [ret |-> NoValue, f |-> f]
  /\ hi = -1

Next ==
  \/ FirstCall
  \/ SecondCall
  \/ ParseJsonEof
  \/ ObjectOpen
  \/ ObjectLoop
  \/ ObjectSep
  \/ ArrayOpen
  \/ ArrayLoop
  \/ ArraySep
  \/ PairKey
  \/ PairColon
  \/ PairDone
  \/ KeyDispatch
  \/ KeyDone
  \/ Identifier
  \/ StringOpen
  \/ StringLoop
  \/ StringInc
  \/ Number
  \/ ValueDispatch
  \/ ValueDone

Spec == Init /\ [][Next]_vars

\* ------------------------------------------------------------- properties

Returned == ret # NoValue

Result == ret[1]

Success == Returned /\ Result >= 0

\* The call records tokens: a non-null array of non-zero capacity.
Recording == ~f.tokens.null /\ f.max_tokens > 0

\* tokens[i] of the call.
Tok(i) == f.tokens.at[i + 1]

Composite(i) == Tok(i).type \in {"JSON_TYPE_OBJECT", "JSON_TYPE_ARRAY"}

Leaf(i) ==
  Tok(i).type \in {"JSON_TYPE_STRING", "JSON_TYPE_NUMBER", "JSON_TYPE_TRUE",
                   "JSON_TYPE_FALSE", "JSON_TYPE_NULL"}

\* The nesting level of token j: the containers whose text it starts in.
Level(j) ==
  Cardinality({ i \in 0..(f.num_tokens - 1) :
                  /\ i # j
                  /\ Composite(i)
                  /\ Tok(i).ptr <= Tok(j).ptr
                  /\ Tok(j).ptr < Tok(i).ptr + Tok(i).len })

\* The first token after i that is a sibling of i or lies at a shallower
\* level (the END_OF_INPUT token is one, at level 0).
NextOutside(i) ==
  CHOOSE j \in (i + 1)..(f.num_tokens - 1) :
    /\ Level(j) <= Level(i)
    /\ \A k \in (i + 1)..(j - 1) : Level(k) > Level(i)

\* C1: whenever parse_json succeeds with a non-zero token capacity, the last
\* token recorded is END_OF_INPUT, starts at the final cursor (the value
\* returned), and has length 0 and subtree size 0.
C1_EofToken ==
  (Success /\ Recording) =>
     LET e == Tok(f.num_tokens - 1)
     IN  /\ e.type = "JSON_TYPE_EOF"
         /\ e.ptr = f.cur
         /\ e.ptr = Result
         /\ e.len = 0
         /\ e.num_children = 0

\* The first call succeeded: its token count is the input's true one.
RefSuccess == calls = 2 /\ ref.ret # NoValue /\ ref.ret[1] >= 0

TrueCount == ref.f.num_tokens

\* C2 as stated: for an input that parses, a capacity k below the true token
\* count T fails with JSON_TOKEN_ARRAY_TOO_SMALL, and capacity T succeeds.
C2_CapacityOriginal ==
  (RefSuccess /\ Returned /\ ~f.tokens.null) =>
     /\ TrueCount > f.max_tokens => Result = JSON_TOKEN_ARRAY_TOO_SMALL
     /\ TrueCount = f.max_tokens => Result = ref.ret[1]

\* C2, amended: for an input that parses, a non-null array of capacity k
\* with 1 <= k < T fails with JSON_TOKEN_ARRAY_TOO_SMALL, capacity T
\* succeeds, and capacity 0 succeeds too (validation only).
C2_Capacity ==
  (RefSuccess /\ Returned /\ ~f.tokens.null) =>
     /\ (1 <= f.max_tokens /\ f.max_tokens < TrueCount)
           => Result = JSON_TOKEN_ARRAY_TOO_SMALL
     /\ TrueCount = f.max_tokens => Result = ref.ret[1]
     /\ f.max_tokens = 0 => Result = ref.ret[1]

\* C2, reached: a call with 2 <= k < T slots filled them all and failed with
\* JSON_TOKEN_ARRAY_TOO_SMALL.
C2_Witness ==
  /\ RefSuccess /\ Returned /\ ~f.tokens.null
  /\ 2 <= f.max_tokens /\ f.max_tokens < TrueCount
  /\ f.num_tokens = f.max_tokens
  /\ Result = JSON_TOKEN_ARRAY_TOO_SMALL

\* The non-empty strict prefixes of the documents parse_json accepts whole.
TruncatedInputs ==
  UNION { { SubSeq(d, 1, n) : n \in 1..(Len(d) - 1) }
          : d \in ValidDocs \ UnicodeDocs }

\* Every valid document without a \u escape is accepted whole by the first
\* call (an invariant of Spec).
AcceptedWhole ==
  (calls = 1 /\ Returned /\ s \in ValidDocs \ UnicodeDocs) => Result = s_len

\* C3: a non-empty strict prefix of an accepted input (it ends inside a
\* string, a number, a literal, or before a closing '}' or ']') returns
\* JSON_STRING_INCOMPLETE, and so does the empty input.
C3_Truncation ==
  (calls = 1 /\ Returned /\ (s \in TruncatedInputs \/ s = <<>>))
     => Result = JSON_STRING_INCOMPLETE

\* C4: after a successful parse that records tokens, every OBJECT or ARRAY
\* token i has num_children equal to the number of tokens after i and before
\* the next token that is its sibling or at a shallower level, and every
\* leaf token has num_children 0.
C4_SubtreeSize ==
  (Success /\ Recording) =>
     \A i \in 0..(f.num_tokens - 2) :
        /\ Composite(i) => Tok(i).num_children = NextOutside(i) - i - 1
        /\ Leaf(i) => Tok(i).num_children = 0
        /\ Composite(i) \/ Leaf(i)

\* C4, reached: a successful parse recorded a nested container that has a
\* child and is followed by a sibling or an outer token before the marker.
C4_Witness ==
  /\ Success /\ Recording
  /\ \E i \in 1..(f.num_tokens - 2) :
        /\ Composite(i)
        /\ Tok(i).num_children >= 1
        /\ Level(i + 1) = Level(i) + 1
        /\ NextOutside(i) < f.num_tokens - 1

\* The escape after a backslash, p the offset after it, is all there and
\* is 'u' and 4 hex digits or one of " \ / b f n r t.
ValidEscapeAt(p) ==
  /\ p < s_len
  /\ \/ Byte(p) \in { Ord("\""), Ord("\\"), Ord("/"), Ord("b"),
                      Ord("f"), Ord("n"), Ord("r"), Ord("t") }
     \/ /\ Byte(p) = Ord("u")
        /\ p + 4 < s_len
        /\ \A k \in 1..4 : is_hex_digit(Byte(p + k))

RECURSIVE WellEscaped(_, _)
\* Every backslash of the string text [p, e) starts a valid escape.
WellEscaped(p, e) ==
  IF p >= e THEN TRUE
  ELSE IF Byte(p) # Ord("\\") THEN WellEscaped(p + 1, e)
  ELSE /\ ValidEscapeAt(p + 1)
       /\ WellEscaped(IF Byte(p + 1) = Ord("u") THEN p + 6 ELSE p + 2, e)

\* C5: in parse_string a backslash followed by 'u' and 4 hex digits, or by
\* one of " \ / b f n r t, is accepted (the parse is not failed for it), and
\* a backslash followed by anything else fails the parse: every string of a
\* successful parse holds valid escapes only.
C5_Escapes ==
  /\ (/\ Returned /\ Result = JSON_STRING_INVALID
      /\ top.fn = "parse_string" /\ top.pc = "loop"
      /\ f.cur < f.end /\ Byte(f.cur) = Ord("\\"))
        => ~ValidEscapeAt(f.cur + 1)
  /\ (Success /\ Recording) =>
        \A i \in 0..(f.num_tokens - 1) :
           Tok(i).type = "JSON_TYPE_STRING"
              => WellEscaped(Tok(i).ptr, Tok(i).ptr + Tok(i).len)

Fits ==
  \/ calls = 1
  \/ ~Recording
  \/ RefSuccess /\ f.max_tokens >= TrueCount

\* C7: for a valid document whose tokens fit, parse_json returns the input
\* length, which is the final cursor offset.
C7_ConsumesAll ==
  (Returned /\ s \in ValidDocs /\ Fits) =>
     /\ Result = s_len
     /\ Result = f.cur

\* The byte after token i, -1 at the end of the input.
After(i) ==
  IF Tok(i).ptr + Tok(i).len < s_len THEN Byte(Tok(i).ptr + Tok(i).len)
  ELSE -1

\* Token i spans an optional '-' and then digits only, all of them.
SignAndDigits(i) ==
  /\ Tok(i).len >= 1
  /\ \A p \in Tok(i).ptr..(Tok(i).ptr + Tok(i).len - 1) :
        is_digit(Byte(p)) \/ (p = Tok(i).ptr /\ Byte(p) = Ord("-"))
  /\ ~is_digit(After(i))

\* The innermost container token i lies in.
Parent(i) ==
  CHOOSE j \in 0..(i - 1) :
    /\ Composite(j) /\ j + Tok(j).num_children >= i
    /\ \A k \in (j + 1)..(i - 1) :
          ~(Composite(k) /\ k + Tok(k).num_children >= i)

Numbers ==
  { i \in 0..(f.num_tokens - 1) : Tok(i).type = "JSON_TYPE_NUMBER" }

C9_CursorMonotonic ==
  [][ /\ calls' = calls => f.cur <= f'.cur
      /\ 0 <= f'.cur
      /\ f'.cur <= f'.end ]_vars

\* C9, reached: parse_string skipped an escape that ends the input, and the
\* cursor stands at the end.
C9_Witness ==
  /\ At("parse_string", "loop")
  /\ top.ch = Ord("\\")
  /\ f.cur = f.end

\* C10: with s_len >= 1, every byte the call reads lies at an offset below
\* s_len.
C10_ReadsInBounds == (calls >= 1 /\ s_len >= 1) => hi < s_len

=============================================================================
